---- MODULE Spec2Model ----
(***************************************************************************)
(* Model of the notebook train_simple_TF2_segmentation_model.ipynb.        *)
(*                                                                         *)
(* The notebook is a linear program: its code cells run top to bottom.     *)
(* One action models one code cell.  The state is the notebook's global    *)
(* variables, the two input directories it lists, and the log of the calls *)
(* it makes into the tensorflow and czmodel packages.                      *)
(*                                                                         *)
(* tensorflow and czmodel are installed packages (pip install czmodel);    *)
(* none of their code is part of the notebook.  A call into them is        *)
(* modelled by what the notebook fixes: the callee, the arguments, the     *)
(* position in the cell order.  Whether the call returns or raises is not  *)
(* fixed by the notebook, so it is a nondeterministic choice; a call that  *)
(* raises ends the run of the notebook.  What the callee does to the disk  *)
(* is not modelled.                                                        *)
(***************************************************************************)
EXTENDS Integers, Sequences, FiniteSets, TLC

VARIABLES pc, images_dir, masks_dir, sample_images, sample_masks,
          images_loaded, masks_loaded, model, model_metadata, model_spec,
          spatial_dims, calls

vars == <<pc, images_dir, masks_dir, sample_images, sample_masks,
          images_loaded, masks_loaded, model, model_metadata, model_spec,
          spatial_dims, calls>>

(* ---------------------------------------------------------------------- *)
(* Bounds                                                                 *)
(* ---------------------------------------------------------------------- *)

\* Largest number of entries in an input directory.
MaxEntries == 3

\* File names, as their rank in Python's string order.
FileNames == 1..MaxEntries

(* ---------------------------------------------------------------------- *)
(* Values the notebook sets                                               *)
(* ---------------------------------------------------------------------- *)

IMAGES_FOLDER == "data/nuclei_images/"

MASKS_FOLDER == "data/nuclei_masks/"

CHANNELS == 1

\* A dimension given as None in input_shape=(None, None, 1).
UndefinedDim == 0

\* depth=2 of tf.one_hot.
MaskDepth == 2

num_epochs == 10

BatchSize == 32

\* spatial_dims = 1024, 1024
TileSize == 1024

\* border_size=8
BorderSize == 8

\* A global that no cell has assigned yet.
Unset == [defined |-> FALSE]

(* ---------------------------------------------------------------------- *)
(* The input directories                                                  *)
(* ---------------------------------------------------------------------- *)

\* What os.path.isfile separates: regular files from sub-directories.
EntryKinds == {"file", "dir"}

\* A directory: the names it holds, each a regular file or a directory.
Directories == UNION {[names -> EntryKinds] : names \in SUBSET FileNames}

\* os.listdir: the names of a directory, each once, in any order.
Listings(dir) ==
    {l \in UNION {[1..n -> DOMAIN dir] : n \in {Cardinality(DOMAIN dir)}} :
        \A i, j \in DOMAIN l : i # j => l[i] # l[j]}

\* os.path.join(folder, f): folder ends in "/", so the path is folder + f.
join(folder, f) == [folder |-> folder, name |-> f]

\* os.path.isfile(os.path.join(folder, f)) in the directory dir.
isfile(dir, path) == dir[path.name] = "file"

\* Python's order of two paths of the same folder: the order of the names.
PathLess(p, q) == p.name < q.name

\* The list comprehension [join(folder, f) for f in listing if isfile(...)].
RECURSIVE FilePaths(_, _, _)
FilePaths(folder, dir, listing) ==
    IF listing = <<>> THEN <<>>
    ELSE LET p == join(folder, Head(listing))
             rest == FilePaths(folder, dir, Tail(listing))
         IN IF isfile(dir, p) THEN <<p>> \o rest ELSE rest

\* Insert p into the sorted list s, after the entries that are not greater.
RECURSIVE Insert(_, _)
Insert(p, s) ==
    IF s = <<>> THEN <<p>>
    ELSE IF PathLess(p, Head(s)) THEN <<p>> \o s
         ELSE <<Head(s)>> \o Insert(p, Tail(s))

\* A loader that keeps the listing order instead of sorting.
sorted_listing_order(s) == s

\* sorted(list): ascending, stable.
RECURSIVE sorted(_)
sorted(s) ==
    IF s = <<>> THEN <<>>
    ELSE Insert(s[Len(s)], sorted(SubSeq(s, 1, Len(s) - 1)))

\* tf.image.decode_image(tf.io.read_file(path), channels=CHANNELS).numpy()
LoadImage(path) == [from |-> path, channels |-> CHANNELS]

\* tf.one_hot(tf.image.decode_image(tf.io.read_file(path), channels=1)[...,0],
\*            depth=2).numpy()
LoadMask(path) == [from |-> path, channels |-> MaskDepth]

\* images_loaded = np.asarray([... for sample_path in sample_images])
LoadImages(paths) == [i \in DOMAIN paths |-> LoadImage(paths[i])]

\* masks_loaded = np.asarray([... for sample_path in sample_masks])
LoadMasks(paths) == [i \in DOMAIN paths |-> LoadMask(paths[i])]

(* ---------------------------------------------------------------------- *)
(* Calls into tensorflow and czmodel                                      *)
(* ---------------------------------------------------------------------- *)

\* How a call into a package can end, as far as the notebook fixes it.
Outcomes == {"returned", "raised"}

Call(fn, args, outcome) == [fn |-> fn, args |-> args, outcome |-> outcome]

\* How cell 6 can end: both loads returned, or tf.io.read_file /
\* tf.image.decode_image raised on one of the image files or mask files.
LoadOutcomes == {"returned", "images_raised", "masks_raised"}

\* The cell that runs after a call: the next cell, or none when it raised.
After(outcome, next) == IF outcome = "returned" THEN next ELSE "error"

(* ---------------------------------------------------------------------- *)
(* Initial state: nothing has run; the two directories are as found.      *)
(* ---------------------------------------------------------------------- *)

Init ==
    /\ pc = "read_images"
    /\ images_dir \in Directories
    /\ masks_dir \in Directories
    /\ sample_images = <<>>
    /\ sample_masks = <<>>
    /\ images_loaded = <<>>
    /\ masks_loaded = <<>>
    /\ model = Unset
    /\ model_metadata = Unset
    /\ model_spec = Unset
    /\ spatial_dims = Unset
    /\ calls = <<>>

(* ---------------------------------------------------------------------- *)
(* The code cells                                                         *)
(* ---------------------------------------------------------------------- *)

\* Cell 6: list both folders, keep the regular files, sort, load.
\* The four statements run in order; a statement that raises leaves the
\* globals of the later statements unassigned and ends the run.
ReadImages ==
    /\ pc = "read_images"
    /\ \E il \in Listings(images_dir), ml \in Listings(masks_dir),
          o \in LoadOutcomes :
          LET si == sorted(FilePaths(IMAGES_FOLDER, images_dir, il))
              sm == sorted(FilePaths(MASKS_FOLDER, masks_dir, ml))
          IN /\ o = "images_raised" => si # <<>>
             /\ o = "masks_raised" => sm # <<>>
             /\ sample_images' = si
             /\ sample_masks' = sm
             /\ images_loaded' =
                    IF o = "images_raised" THEN <<>> ELSE LoadImages(si)
             /\ masks_loaded' =
                    IF o = "returned" THEN LoadMasks(sm) ELSE <<>>
             /\ pc' = After(o, "define_model")
    /\ UNCHANGED <<images_dir, masks_dir, model, model_metadata, model_spec,
                   spatial_dims, calls>>

\* Cell 7: the Sequential model and model.compile.
DefineModel ==
    /\ pc = "define_model"
    /\ model' = [defined |-> TRUE,
                 layers |-> <<"PerImageStandardization", "Conv2D_16_3",
                              "Conv2D_2_1_softmax">>,
                 input_shape |-> <<UndefinedDim, UndefinedDim, 1>>,
                 output_channels |-> 2,
                 compiled |-> TRUE]
    /\ pc' = "fit"
    /\ UNCHANGED <<images_dir, masks_dir, sample_images, sample_masks,
                   images_loaded, masks_loaded, model_metadata, model_spec,
                   spatial_dims, calls>>

\* Cell 8: model.fit and model.evaluate on the loaded arrays.
FitModel ==
    /\ pc = "fit"
    /\ \E o \in Outcomes :
          /\ calls' = Append(calls,
                 Call("model.fit",
                      [x |-> images_loaded, y |-> masks_loaded,
                       batch_size |-> BatchSize, epochs |-> num_epochs], o))
          /\ pc' = After(o, "evaluate")
    /\ UNCHANGED <<images_dir, masks_dir, sample_images, sample_masks,
                   images_loaded, masks_loaded, model, model_metadata,
                   model_spec, spatial_dims>>

EvaluateModel ==
    /\ pc = "evaluate"
    /\ \E o \in Outcomes :
          /\ calls' = Append(calls,
                 Call("model.evaluate",
                      [x |-> images_loaded, y |-> masks_loaded], o))
          /\ pc' = After(o, "define_metadata")
    /\ UNCHANGED <<images_dir, masks_dir, sample_images, sample_masks,
                   images_loaded, masks_loaded, model, model_metadata,
                   model_spec, spatial_dims>>

\* Cell 9: ModelMetadata.from_params, ModelSpec, spatial_dims.
DefineMetadata ==
    /\ pc = "define_metadata"
    /\ LET md == [defined |-> TRUE,
                  name |-> "Simple_Nuclei_SegmentationModel",
                  color_handling |-> "ConvertToMonochrome",
                  pixel_type |-> "Gray16",
                  classes |-> <<"Background", "Nucleus">>,
                  border_size |-> BorderSize]
       IN /\ model_metadata' = md
          /\ model_spec' = [defined |-> TRUE, model |-> model,
                            model_metadata |-> md]
    /\ spatial_dims' = [defined |-> TRUE, dims |-> <<TileSize, TileSize>>]
    /\ pc' = "export_from_spec"
    /\ UNCHANGED <<images_dir, masks_dir, sample_images, sample_masks,
                   images_loaded, masks_loaded, model, calls>>

\* Cell 10: convert_from_model_spec.
ExportFromSpec ==
    /\ pc = "export_from_spec"
    /\ \E o \in Outcomes :
          /\ calls' = Append(calls,
                 Call("convert_from_model_spec",
                      [model_spec |-> model_spec,
                       output_path |-> "./czmodel_output",
                       output_name |-> "simple_nuclei_segmodel",
                       spatial_dims |-> spatial_dims], o))
          /\ pc' = After(o, "save_model")
    /\ UNCHANGED <<images_dir, masks_dir, sample_images, sample_masks,
                   images_loaded, masks_loaded, model, model_metadata,
                   model_spec, spatial_dims>>

\* Cell 11, first statement: model.save.
SaveModel ==
    /\ pc = "save_model"
    /\ \E o \in Outcomes :
          /\ calls' = Append(calls,
                 Call("model.save",
                      [model |-> model,
                       path |-> "./saved_tf2_model_output_dims_unset/"], o))
          /\ pc' = After(o, "save_wrapped_model")
    /\ UNCHANGED <<images_dir, masks_dir, sample_images, sample_masks,
                   images_loaded, masks_loaded, model, model_metadata,
                   model_spec, spatial_dims>>

\* Cell 11, second statement: add_preprocessing_layers(...).save(...).
\* The .save is reached only when add_preprocessing_layers returned.
SaveWrappedModel ==
    /\ pc = "save_wrapped_model"
    /\ \E o1 \in Outcomes, o2 \in Outcomes :
          LET wrap == Call("add_preprocessing_layers",
                           [model |-> model, layers |-> "None",
                            spatial_dims |-> spatial_dims], o1)
              save == Call("add_preprocessing_layers.save",
                           [path |-> "./saved_tf2_model_output/"], o2)
          IN IF o1 = "raised"
             THEN /\ calls' = Append(calls, wrap)
                  /\ pc' = "error"
             ELSE /\ calls' = calls \o <<wrap, save>>
                  /\ pc' = After(o2, "export_from_json")
    /\ UNCHANGED <<images_dir, masks_dir, sample_images, sample_masks,
                   images_loaded, masks_loaded, model, model_metadata,
                   model_spec, spatial_dims>>

\* Cell 12: convert_from_json_spec.
ExportFromJson ==
    /\ pc = "export_from_json"
    /\ \E o \in Outcomes :
          /\ calls' = Append(calls,
                 Call("convert_from_json_spec",
                      [model_spec_path |-> "model_spec_dims_unset.json",
                       output_path |-> "model_from_json",
                       output_name |-> "simple_nuclei_segmodel_from_json",
                       spatial_dims |-> spatial_dims], o))
          /\ pc' = After(o, "done")
    /\ UNCHANGED <<images_dir, masks_dir, sample_images, sample_masks,
                   images_loaded, masks_loaded, model, model_metadata,
                   model_spec, spatial_dims>>

Next ==
    \/ ReadImages
    \/ DefineModel
    \/ FitModel
    \/ EvaluateModel
    \/ DefineMetadata
    \/ ExportFromSpec
    \/ SaveModel
    \/ SaveWrappedModel
    \/ ExportFromJson

Spec == Init /\ [][Next]_vars

(* ---------------------------------------------------------------------- *)
(* Type correctness of the model                                          *)
(* ---------------------------------------------------------------------- *)

PcValues == {"read_images", "define_model", "fit", "evaluate",
             "define_metadata", "export_from_spec", "save_model",
             "save_wrapped_model", "export_from_json", "done", "error"}

TypeOK ==
    /\ pc \in PcValues
    /\ images_dir \in Directories
    /\ masks_dir \in Directories
    /\ Len(images_loaded) \in {0, Len(sample_images)}
    /\ Len(masks_loaded) \in {0, Len(sample_masks)}
    /\ \A i \in DOMAIN calls : calls[i].outcome \in Outcomes

(* ---------------------------------------------------------------------- *)
(* C15: training-data loading pairs images and masks by sorted path order *)
(* ---------------------------------------------------------------------- *)

\* The names of the regular files of a directory.
RegularFiles(dir) == {n \in DOMAIN dir : dir[n] = "file"}

\* paths is the ascending list of exactly the regular files of dir.
IsSortedFileList(folder, dir, paths) ==
    /\ \A i, j \in DOMAIN paths : i < j => paths[i].name < paths[j].name
    /\ {paths[i] : i \in DOMAIN paths}
          = {[folder |-> folder, name |-> n] : n \in RegularFiles(dir)}

\* Cell 6 has run and both load statements returned.
LoaderReturned ==
    /\ pc # "read_images"
    /\ Len(images_loaded) = Len(sample_images)
    /\ Len(masks_loaded) = Len(sample_masks)

\* C15: whatever order os.listdir returns, once the path lists are built
\* each is the ascending list of the regular files of its folder, with the
\* sub-directories left out; when both folders hold the same number n of
\* regular files and the loads returned, the i-th loaded image and the i-th
\* loaded mask come from the i-th paths of the two sorted lists; and the
\* loader can run to its end for every content of the two folders, equal
\* counts and names or not, because it compares neither.
C15_SortedPairing ==
    /\ pc = "read_images" => ENABLED (ReadImages /\ pc' = "define_model")
    /\ pc # "read_images" =>
          /\ IsSortedFileList(IMAGES_FOLDER, images_dir, sample_images)
          /\ IsSortedFileList(MASKS_FOLDER, masks_dir, sample_masks)
    /\ (LoaderReturned
          /\ Cardinality(RegularFiles(images_dir))
                = Cardinality(RegularFiles(masks_dir))) =>
          /\ Len(images_loaded) = Cardinality(RegularFiles(images_dir))
          /\ Len(masks_loaded) = Len(images_loaded)
          /\ \A i \in DOMAIN images_loaded :
                /\ images_loaded[i].from = sample_images[i]
                /\ masks_loaded[i].from = sample_masks[i]

\* Two images and two masks were loaded from folders that also hold a
\* sub-directory, and the first image and the first mask have different
\* file names.
C15_Witness ==
    /\ pc = "define_model"
    /\ LoaderReturned
    /\ Len(images_loaded) = 2
    /\ Len(masks_loaded) = 2
    /\ \E n \in DOMAIN images_dir : images_dir[n] = "dir"
    /\ \E n \in DOMAIN masks_dir : masks_dir[n] = "dir"
    /\ images_loaded[1].from.name # masks_loaded[1].from.name

(* ---------------------------------------------------------------------- *)
(* The JSON document of the "Remarks" cell                                *)
(* ---------------------------------------------------------------------- *)

\* The tokens of a JSON text.
Punct(k) == [kind |-> k, str |-> "", num |-> 0]

StrTok(x) == [kind |-> "string", str |-> x, num |-> 0]

NumTok(n) == [kind |-> "number", str |-> "", num |-> n]

\* The document as the notebook shows it, token by token.
model_spec_json ==
    << Punct("{"),
       StrTok("BorderSize"), Punct(":"), NumTok(8), Punct(","),
       StrTok("ColorHandling"), Punct(":"), StrTok("ConvertToMonochrome"),
       Punct(","),
       StrTok("PixelType"), Punct(":"), StrTok("Gray16"), Punct(","),
       StrTok("Classes"), Punct(":"),
       Punct("["), StrTok("Background"), Punct(","), StrTok("Nuclei"),
       Punct("]"), Punct(","),
       StrTok("ModelPath"), Punct(":"), StrTok("saved_tf2_model_output"),
       Punct(","),
       Punct("}") >>

\* The values of a flat JSON document: strings, numbers, arrays of values.
JsonValue(type, str, num, items) ==
    [type |-> type, str |-> str, num |-> num, items |-> items]

NoValue == JsonValue("none", "", 0, <<>>)

ValueFailed == [ok |-> FALSE, next |-> 0, value |-> NoValue]

MembersFailed == [ok |-> FALSE, next |-> 0, members |-> <<>>]

KindAt(toks, i) == IF i \in DOMAIN toks THEN toks[i].kind ELSE "end"

RECURSIVE ParseValue(_, _)
RECURSIVE ParseElements(_, _, _)
RECURSIVE ParseMembers(_, _, _, _)

\* value = string / number / "[" [ value *( "," value ) ] "]"
ParseValue(toks, i) ==
    CASE KindAt(toks, i) = "string" ->
            [ok |-> TRUE, next |-> i + 1,
             value |-> JsonValue("string", toks[i].str, 0, <<>>)]
      [] KindAt(toks, i) = "number" ->
            [ok |-> TRUE, next |-> i + 1,
             value |-> JsonValue("number", "", toks[i].num, <<>>)]
      [] KindAt(toks, i) = "[" ->
            IF KindAt(toks, i + 1) = "]"
            THEN [ok |-> TRUE, next |-> i + 2,
                  value |-> JsonValue("array", "", 0, <<>>)]
            ELSE ParseElements(toks, i + 1, <<>>)
      [] OTHER -> ValueFailed

\* The elements of an array from token i on; acc holds those already read.
ParseElements(toks, i, acc) ==
    LET v == ParseValue(toks, i)
    IN IF ~v.ok THEN ValueFailed
       ELSE CASE KindAt(toks, v.next) = "," ->
                    ParseElements(toks, v.next + 1, Append(acc, v.value))
              [] KindAt(toks, v.next) = "]" ->
                    [ok |-> TRUE, next |-> v.next + 1,
                     value |-> JsonValue("array", "", 0,
                                         Append(acc, v.value))]
              [] OTHER -> ValueFailed

\* member *( "," member ) "}" with member = string ":" value, from token i
\* on.  JSON has no comma before the closing brace; trailing_comma tells
\* whether one is read over all the same.
ParseMembers(toks, i, acc, trailing_comma) ==
    IF trailing_comma /\ acc # <<>> /\ KindAt(toks, i) = "}"
    THEN [ok |-> TRUE, next |-> i + 1, members |-> acc]
    ELSE IF KindAt(toks, i) # "string" \/ KindAt(toks, i + 1) # ":"
    THEN MembersFailed
    ELSE LET v == ParseValue(toks, i + 2)
             m == [key |-> toks[i].str, value |-> v.value]
         IN IF ~v.ok THEN MembersFailed
            ELSE CASE KindAt(toks, v.next) = "," ->
                         ParseMembers(toks, v.next + 1, Append(acc, m),
                                      trailing_comma)
                   [] KindAt(toks, v.next) = "}" ->
                         [ok |-> TRUE, next |-> v.next + 1,
                          members |-> Append(acc, m)]
                   [] OTHER -> MembersFailed

\* A whole document: one object and nothing after it.
ParseDocument(toks, trailing_comma) ==
    IF KindAt(toks, 1) # "{" THEN MembersFailed
    ELSE LET r == IF KindAt(toks, 2) = "}"
                  THEN [ok |-> TRUE, next |-> 3, members |-> <<>>]
                  ELSE ParseMembers(toks, 2, <<>>, trailing_comma)
         IN IF r.ok /\ r.next = Len(toks) + 1 THEN r ELSE MembersFailed

\* The document is well-formed JSON.
WellFormed(toks) == ParseDocument(toks, FALSE).ok

\* The members of the document as written, a comma before "}" read over.
MembersAsWritten(toks) == ParseDocument(toks, TRUE).members

HasKey(members, key) == \E i \in DOMAIN members : members[i].key = key

\* The value of a key; of its last member when the key is repeated.
Field(members, key) ==
    LET last == CHOOSE i \in DOMAIN members :
                   /\ members[i].key = key
                   /\ \A j \in DOMAIN members : members[j].key = key => j <= i
    IN members[last].value

\* The class list of the document, as a list of strings.
DocumentClasses(members) ==
    LET items == Field(members, "Classes").items
    IN [i \in DOMAIN items |-> items[i].str]

(* ---------------------------------------------------------------------- *)
(* C14: the JSON document and the metadata of cell 9                      *)
(* ---------------------------------------------------------------------- *)

\* C14: once cell 9 has built the ModelMetadata, the JSON document of the
\* notebook describes the same metadata: its BorderSize, ColorHandling,
\* PixelType and Classes equal the border_size, color_handling, pixel_type
\* and classes given to from_params (same class strings, same order), and
\* the document is well-formed JSON, so that it parses without an error.
C14_DocumentSameMetadata ==
    model_metadata.defined =>
       LET doc == MembersAsWritten(model_spec_json)
       IN /\ WellFormed(model_spec_json)
          /\ \A k \in {"BorderSize", "ColorHandling", "PixelType", "Classes"} :
                HasKey(doc, k)
          /\ Field(doc, "BorderSize").type = "number"
          /\ Field(doc, "BorderSize").num = model_metadata.border_size
          /\ Field(doc, "ColorHandling").str = model_metadata.color_handling
          /\ Field(doc, "PixelType").str = model_metadata.pixel_type
          /\ Field(doc, "Classes").type = "array"
          /\ DocumentClasses(doc) = model_metadata.classes

====
